---- MODULE Spec2Model ----
(***************************************************************************)
(* A model of BunqJSClient (src/src/BunqJSClient.ts): the install /        *)
(* registerDevice / registerSession handshake, the session renewal marker  *)
(* fetchingNewSession, and the expiry timer.                               *)
(*                                                                         *)
(* JavaScript runs the client single-threaded: an async method runs        *)
(* without interruption up to its next await, so every action below is     *)
(* the code between two awaits of one method.  Times are in milliseconds.  *)
(***************************************************************************)
EXTENDS Integers, FiniteSets, Sequences, Bags, TLC

\* --------------------------------------------------------------- bounds
\* The number of logical callers that may have an operation in flight.
NumCallers == 2
\* The number of steps the clock takes.
MaxSteps == 1

\* ------------------------------------------------------------ constants
FIVE_MINUTES_MS == 300000
\* "15 seconds before it expires we want to reset it"
EXPIRY_MARGIN_MS == 15000
\* the status on which registerDevice destroys the installation
BAD_REQUEST == 400
\* null / undefined of a JavaScript field
NULL == -1

\* The clock advances in steps of ten minutes.
AdvanceMs == 2 * FIVE_MINUTES_MS
MaxNow == MaxSteps * AdvanceMs

VARIABLES
    Session,            \* this.Session: the in-memory session record
    stored,             \* what storeSession last wrote to the storage
    keepAlive,          \* this.keepAlive
    fetchingNewSession, \* this.fetchingNewSession: FALSE, or TRUE when it holds a promise
    timers,             \* the timeouts setTimeout has scheduled and that neither fired nor were cleared
    envCI,              \* process.env.ENV_CI === "true"
    storageRefuses,     \* the storage collaborator rejects every write
    now,                \* new Date().getTime()
    account,            \* the server's user_info for the api key in use
    inflight,           \* the bag of suspended calls: [pc, op, calls, error] each
    last                \* the outcome the latest step delivered to a caller (or logged), if any

vars == <<Session, stored, keepAlive, fetchingNewSession, timers, envCI,
          storageRefuses, now,
          account, inflight, last>>

\* ------------------------------------------------------- user objects
\* The field names getUserType looks for, in the order it tests them.
UserFields == <<"UserCompany", "UserPerson", "UserLight", "UserApiKey">>
UserFieldSet == {UserFields[i] : i \in 1..Len(UserFields)}

\* A field that is undefined.
Undef == [def |-> FALSE, id |-> NULL, session_timeout |-> NULL, nested |-> <<>>]
\* The info object of a Company, Person or Light user. id 0 is a missing id.
Info(id, timeout) ==
    [def |-> TRUE, id |-> id, session_timeout |-> timeout, nested |-> <<>>]
\* The info object of an OAuth api key: nested = <<requested_by_user, granted_by_user>>.
ApiKeyInfo(id, requested, granted) ==
    [def |-> TRUE, id |-> id, session_timeout |-> NULL, nested |-> <<requested, granted>>]
\* An object whose only defined field is `field`.
UserObj(field, info) == [f \in UserFieldSet |-> IF f = field THEN info ELSE Undef]
\* {}
EmptyObj == [f \in UserFieldSet |-> Undef]

\* The user_info payloads the server answers with in this model.
U_Person == UserObj("UserPerson", Info(2, 10))
U_Company == UserObj("UserCompany", Info(1, 600))
U_Granted == UserObj("UserLight", Info(0, 10))
U_OAuth == UserObj("UserApiKey", ApiKeyInfo(3, U_Company, U_Granted))
\* The accounts an api key may belong to: the server describes the account
\* of the key in every answer, or sends a payload with no known field.
Accounts == {U_Person, U_OAuth}
UserInfos == {account, EmptyObj}

\* The shapes of user objects the classification is tried on: one known
\* field, two known fields, no known field, and OAuth api keys (id 3) whose
\* requested_by_user and granted_by_user are users with or without an id,
\* an api key, or an object with no known field.
PlainUsers ==
    {UserObj("UserCompany", Info(1, 600)), UserObj("UserPerson", Info(2, 10)),
     UserObj("UserLight", Info(4, 10))}
MixedUsers ==
    {[U_Person EXCEPT !["UserCompany"] = Info(1, 600)],
     [U_OAuth EXCEPT !["UserPerson"] = Info(2, 10)]}
RequestedByUsers ==
    {UserObj("UserCompany", Info(1, 600)), UserObj("UserPerson", Info(2, 10)),
     EmptyObj}
GrantedByUsers ==
    {UserObj("UserLight", Info(0, 10)), UserObj("UserPerson", Info(5, 10)),
     UserObj("UserCompany", Info(0, 600)), UserObj("UserApiKey", Info(0, NULL)),
     EmptyObj}
OAuthUsers ==
    {UserObj("UserApiKey", ApiKeyInfo(3, requested, granted)) :
        requested \in RequestedByUsers, granted \in GrantedByUsers}
Shapes == PlainUsers \cup MixedUsers \cup OAuthUsers \cup {EmptyObj}

\* A getUserType that takes an object with no known field for a user
\* without data.
getUserTypeLenient(userInfo) ==
    IF userInfo["UserCompany"].def
    THEN [ok |-> TRUE, info |-> userInfo["UserCompany"], type |-> "UserCompany", isOAuth |-> FALSE]
    ELSE IF userInfo["UserPerson"].def
    THEN [ok |-> TRUE, info |-> userInfo["UserPerson"], type |-> "UserPerson", isOAuth |-> FALSE]
    ELSE IF userInfo["UserApiKey"].def
    THEN [ok |-> TRUE, info |-> userInfo["UserApiKey"], type |-> "UserApiKey", isOAuth |-> TRUE]
    ELSE [ok |-> TRUE, info |-> userInfo["UserLight"], type |-> "UserLight", isOAuth |-> FALSE]

\* getUserType: the first defined field in the order Company, Person, Light,
\* ApiKey; ok = FALSE is the thrown "No supported account type found!".
getUserType(userInfo) ==
    IF userInfo["UserCompany"].def
    THEN [ok |-> TRUE, info |-> userInfo["UserCompany"], type |-> "UserCompany", isOAuth |-> FALSE]
    ELSE IF userInfo["UserPerson"].def
    THEN [ok |-> TRUE, info |-> userInfo["UserPerson"], type |-> "UserPerson", isOAuth |-> FALSE]
    ELSE IF userInfo["UserLight"].def
    THEN [ok |-> TRUE, info |-> userInfo["UserLight"], type |-> "UserLight", isOAuth |-> FALSE]
    ELSE IF userInfo["UserApiKey"].def
    THEN [ok |-> TRUE, info |-> userInfo["UserApiKey"], type |-> "UserApiKey", isOAuth |-> TRUE]
    ELSE [ok |-> FALSE, info |-> Undef, type |-> "none", isOAuth |-> FALSE]

\* ------------------------------------------------------- the Session
\* new Session(...): every field null, no user info, no timer handle.
FreshSession ==
    [publicKey |-> NULL,
     serverPublicKeyPem |-> NULL, serverPublicKey |-> NULL, installToken |-> NULL,
     installUpdated |-> NULL, installCreated |-> NULL,
     deviceId |-> NULL,
     sessionId |-> NULL, sessionToken |-> NULL, sessionTokenId |-> NULL,
     sessionExpiryTime |-> NULL, sessionTimeout |-> 0,
     isOAuthKey |-> FALSE, userInfo |-> EmptyObj,
     sessionExpiryTimeChecker |-> NULL]

\* Session.storeSession(): everything but the timer handle is written.
Persisted(S) == [S EXCEPT !.sessionExpiryTimeChecker = NULL]

\* What the storage holds after an awaited Session.storeSession() with the
\* Session being S: a storage that refuses keeps what it held, and the await
\* throws.
StoredAfter(S) == IF storageRefuses THEN stored ELSE Persisted(S)

\* Session.verifyInstallation(): the Installation is present.
verifyInstallation(S) == S.serverPublicKey # NULL /\ S.installToken # NULL
\* Session.verifyDeviceInstallation(): the DeviceRegistration is present.
verifyDeviceInstallation(S) == S.deviceId # NULL
\* Session.verifySessionInstallation(): the Session is usable.
verifySessionInstallation(S) ==
    /\ verifyInstallation(S)
    /\ verifyDeviceInstallation(S)
    /\ S.sessionId # NULL
    /\ S.sessionExpiryTime # NULL
    /\ S.sessionExpiryTime > now

\* ------------------------------------------------------- the expiry timer
\* A scheduled timeout: [id, armedAt, delay, short].  It may fire once
\* armedAt + delay has passed.
FireTime(t) == t.armedAt + t.delay

\* A handle setTimeout has not handed out among the pending timers.
NewTimerId(T) == CHOOSE i \in 1..(Cardinality(T) + 1) : \A t \in T : t.id # i

\* A clearExpiryTimer that cancels nothing.
KeepTimers(S, T) == T

\* clearExpiryTimer: clearTimeout(handle) when the handle is not null.
clearExpiryTimer(S, T) ==
    IF S.sessionExpiryTimeChecker # NULL
    THEN {t \in T : t.id # S.sessionExpiryTimeChecker}
    ELSE T

\* A setExpiryTimer that does not look at keepAlive.
KeepAliveIgnored == FALSE

\* Line 390: self-renewal is disabled.
KeepAliveIsOff == keepAlive = FALSE

\* A setExpiryTimer that does not look at shortTimeout.
ExpiresAtExpiry(S, shortTimeout) == S.sessionExpiryTime - now

\* A setExpiryTimer that takes the session timeout for the remaining time.
ExpiresAfterTimeout(S, shortTimeout) ==
    IF shortTimeout
    THEN IF S.sessionTimeout > FIVE_MINUTES_MS
         THEN FIVE_MINUTES_MS
         ELSE S.sessionTimeout
    ELSE S.sessionTimeout

\* Lines 396-409: the time to the expiry, or with shortTimeout the session
\* timeout capped at five minutes.
ExpiresInMilliseconds(S, shortTimeout) ==
    IF shortTimeout
    THEN IF S.sessionTimeout > FIVE_MINUTES_MS
         THEN FIVE_MINUTES_MS
         ELSE S.sessionTimeout
    ELSE S.sessionExpiryTime - now

\* setExpiryTimer(shortTimeout): the Session and the pending timers after it.
setExpiryTimer(S, T, shortTimeout) ==
    IF envCI
    THEN [S |-> S, T |-> T]
    ELSE IF KeepAliveIsOff
    THEN [S |-> S, T |-> clearExpiryTimer(S, T)]
    ELSE IF S.sessionExpiryTime # NULL
    THEN LET timeoutRequestDuration ==
                 ExpiresInMilliseconds(S, shortTimeout) - EXPIRY_MARGIN_MS
             cleared == clearExpiryTimer(S, T)
             id == NewTimerId(cleared)
         IN  [S |-> [S EXCEPT !.sessionExpiryTimeChecker = id],
              T |-> cleared \cup {[id |-> id, armedAt |-> now,
                                   delay |-> timeoutRequestDuration,
                                   short |-> shortTimeout]}]
    ELSE [S |-> S, T |-> T]

\* ------------------------------------------------------- outcomes
\* What a call delivered: result is "ok", "error" (thrown to the caller),
\* "logged" (logger.error only) or "dropped" (caught and discarded);
\* errorCode and error are the fields of a
\* thrown {errorCode, error} object ("none" when the thrown value has none);
\* calls counts the session-creation requests the call issued.
Outcome(o, result, errorCode, error, n) ==
    [op |-> o, result |-> result, errorCode |-> errorCode, error |-> error, calls |-> n]
NoOutcome == Outcome("none", "none", "none", "none", 0)
\* An await of the storage that resolves whatever the storage did.
AfterStoreUnchecked(o, outcome) == outcome

\* What a call whose awaited write to the storage has settled delivers.
AfterStore(o, outcome) ==
    IF storageRefuses THEN Outcome(o, "error", "none", "storage", 0) ELSE outcome

\* errorCodes.INSTALLATION_HAS_SESSION
INSTALLATION_HAS_SESSION == "INSTALLATION_HAS_SESSION"

\* The ways a network call fails: no transport response, or a response status.
NetworkFailures == {"network", "status"}

\* ------------------------------------------------------- suspended calls
\* A call suspended at an await: pc names the await, op the public method
\* that was called (the background refresh is "refresh"), calls counts the
\* session-creation requests it has issued, error is the error a catch
\* block holds while it awaits.
Call(pc, o, n) == [pc |-> pc, op |-> o, calls |-> n, error |-> "none"]
Suspended == BagToSet(inflight)

\* A method is called and suspends at its first await.
Suspend(c) ==
    /\ BagCardinality(inflight) < NumCallers
    /\ inflight' = inflight (+) SetToBag({c})
    /\ last' = NoOutcome
\* A method is called and returns without an await.
ReturnAtOnce(outcome) ==
    /\ BagCardinality(inflight) < NumCallers
    /\ inflight' = inflight
    /\ last' = outcome
\* A suspended call goes on to its next await.
ResumeAs(c, d) ==
    /\ inflight' = (inflight (-) SetToBag({c})) (+) SetToBag({d})
    /\ last' = NoOutcome
Resume(c, pc) == ResumeAs(c, [c EXCEPT !.pc = pc])
\* A suspended call returns or throws.
Return(c, outcome) ==
    /\ inflight' = inflight (-) SetToBag({c})
    /\ last' = outcome

Init ==
    /\ Session = FreshSession
    /\ stored = FreshSession
    /\ keepAlive = TRUE
    /\ fetchingNewSession = FALSE
    /\ timers = {}
    /\ envCI \in BOOLEAN
    /\ storageRefuses \in BOOLEAN
    /\ account \in Accounts
    /\ now = 0
    /\ inflight = EmptyBag
    /\ last = NoOutcome

\* ------------------------------------------------------- the clock
Advance ==
    /\ now + AdvanceMs <= MaxNow
    /\ now' = now + AdvanceMs
    /\ last' = NoOutcome
    /\ UNCHANGED <<Session, stored, keepAlive, fetchingNewSession, timers,
                   envCI, storageRefuses, account, inflight>>

\* ------------------------------------------------------- setKeepAlive
setKeepAlive(k) ==
    /\ keepAlive # k
    /\ keepAlive' = k
    /\ last' = NoOutcome
    /\ UNCHANGED <<Session, stored, fetchingNewSession, timers, envCI, storageRefuses, now,
                   account, inflight>>

\* ------------------------------------------------------- registerSession
\* A parseOauthUser that leaves the id of granted_by_user as it came.
GrantedIdKept(grantedId, outerId) == grantedId

\* Lines 313-315: a granted_by_user without an id gets the id of the api key.
GrantedId(grantedId, outerId) == IF grantedId = 0 THEN outerId ELSE grantedId

\* parseOauthUser(userInfoParsed): ok = FALSE when getUserType throws on a
\* nested user; otherwise the Session after it and the session timeout read
\* from requested_by_user.  Line 318 reads isOAuthKey and assigns nothing.
parseOauthUser(S, userInfoParsed) ==
    LET requestedByUserParsed == getUserType(userInfoParsed.info.nested[1])
        grantedByUserParsed == getUserType(userInfoParsed.info.nested[2])
        grantedInfo ==
            [grantedByUserParsed.info EXCEPT
                !.id = GrantedId(grantedByUserParsed.info.id, userInfoParsed.info.id)]
    IN  IF requestedByUserParsed.ok /\ grantedByUserParsed.ok
        THEN [ok |-> TRUE,
              S |-> [S EXCEPT !.userInfo["UserApiKey"] = grantedInfo],
              sessionTimeout |-> requestedByUserParsed.info.session_timeout]
        ELSE [ok |-> FALSE, S |-> S, sessionTimeout |-> NULL]

\* A generateSession that takes the seconds for milliseconds.
SecondsKept(seconds) == seconds

\* Line 262: the session timeout in milliseconds.
MillisecondsOf(seconds) == seconds * 1000

\* generateSession, lines 234-272: the Session after a session-creation
\* response with the given creation time (ms) and user_info; ok = FALSE when
\* getUserType throws.
SessionFromResponse(S, created, user_info) ==
    LET userInfoParsed == getUserType(user_info)
        oauth == parseOauthUser(S, userInfoParsed)
        parsedOk == userInfoParsed.ok /\ (userInfoParsed.isOAuth => oauth.ok)
        S1 == IF userInfoParsed.isOAuth
              THEN oauth.S
              ELSE [S EXCEPT !.isOAuthKey = FALSE, !.userInfo = user_info]
        sessionTimeout ==
            MillisecondsOf(IF userInfoParsed.isOAuth
                           THEN oauth.sessionTimeout
                           ELSE userInfoParsed.info.session_timeout)
    IN  IF parsedOk
        THEN [ok |-> TRUE,
              S |-> [S1 EXCEPT !.sessionExpiryTime = created + sessionTimeout,
                               !.sessionTimeout = sessionTimeout,
                               !.sessionId = 1,
                               !.sessionToken = 1,
                               !.sessionTokenId = 1]]
        ELSE [ok |-> FALSE, S |-> S]

\* A generateSession that rethrows the transport error as it is.
SessionCreationErrorUnwrapped(cause) ==
    [errorCode |-> "none", error |-> cause]

\* The error generateSession throws when api.sessionServer.add() fails.
SessionCreationError(cause) ==
    [errorCode |-> INSTALLATION_HAS_SESSION, error |-> cause]

\* A registerSession that leaves the promise in fetchingNewSession.
MarkerLeftSet == TRUE

\* The value of fetchingNewSession once registerSession has seen
\* generateSession settle (lines 199 and 206).
MarkerAfterSettle == FALSE

\* Whether registerSession starts generateSession (line 190).
NeedsNewSession(S) == verifySessionInstallation(S) = FALSE

\* What follows the registerSession a call awaits: a direct caller gets the
\* outcome; the background refresh goes on to list the users, or logs.
AfterRegisterSession(c, result, errorCode, error) ==
    IF c.op \in {"refresh", "getUsers"} /\ result = "ok"
    THEN Resume(c, "gu_list")
    ELSE Return(c, Outcome(c.op, IF c.op = "refresh" THEN "logged" ELSE result,
                           errorCode, error, c.calls))

\* The await generateSession suspends at once the request is sent.  The
\* server can only accept a request of an installed, registered device.
SessionRequestPc(S) ==
    IF verifyInstallation(S) /\ verifyDeviceInstallation(S)
    THEN "gs_add" ELSE "gs_add_rej"

\* registerSession() up to its await: returns true at once on a usable
\* session, otherwise calls generateSession, which sends the request.
registerSession ==
    /\ IF NeedsNewSession(Session)
       THEN /\ fetchingNewSession' = TRUE
            /\ Suspend(Call(SessionRequestPc(Session), "registerSession", 1))
       ELSE /\ fetchingNewSession' = fetchingNewSession
            /\ ReturnAtOnce(Outcome("registerSession", "ok", "none", "none", 0))
    /\ UNCHANGED <<Session, stored, keepAlive, timers, envCI, storageRefuses, now, account>>

\* api.sessionServer.add() fails: generateSession throws the wrapped error,
\* registerSession clears the marker and rethrows.
generateSessionFail(c) ==
    /\ c \in Suspended
    /\ c.pc \in {"gs_add", "gs_add_rej"}
    /\ \E cause \in NetworkFailures :
        LET e == SessionCreationError(cause)
        IN  AfterRegisterSession(c, "error", e.errorCode, e.error)
    /\ fetchingNewSession' = MarkerAfterSettle
    /\ UNCHANGED <<Session, stored, keepAlive, timers, envCI, storageRefuses, now, account>>

\* api.sessionServer.add() answers: the response is parsed and the Session
\* set, then storeSession is awaited; an unsupported user shape throws.
generateSessionResponse(c) ==
    /\ c \in Suspended
    /\ c.pc = "gs_add"
    /\ \E user_info \in UserInfos :
        LET r == SessionFromResponse(Session, now, user_info)
        IN  IF r.ok
            THEN /\ Session' = r.S
                 /\ stored' = StoredAfter(r.S)
                 /\ Resume(c, "gs_store")
                 /\ fetchingNewSession' = fetchingNewSession
            ELSE /\ AfterRegisterSession(c, "error", "none", "unsupported")
                 /\ fetchingNewSession' = MarkerAfterSettle
                 /\ UNCHANGED <<Session, stored>>
    /\ UNCHANGED <<keepAlive, timers, envCI, storageRefuses, now, account>>

\* storeSession() done: the timer is set, generateSession returns true and
\* registerSession clears the marker.  When the write was refused the await
\* of line 282 throws: no timer is set and registerSession rethrows.
generateSessionStored(c) ==
    /\ c \in Suspended
    /\ c.pc = "gs_store"
    /\ IF storageRefuses
       THEN /\ AfterRegisterSession(c, "error", "none", "storage")
            /\ UNCHANGED <<Session, timers>>
       ELSE /\ LET r == setExpiryTimer(Session, timers, FALSE)
               IN  /\ Session' = r.S
                   /\ timers' = r.T
            /\ AfterRegisterSession(c, "ok", "none", "none")
    /\ fetchingNewSession' = MarkerAfterSettle
    /\ UNCHANGED <<stored, keepAlive, envCI, storageRefuses, now, account>>

\* ------------------------------------------------------- the timer callback
\* getUsers(true) up to its await: api.user.list() reaches the adapter, which
\* makes sure of a session (registerSession) before it sends the request.
RefreshCall(S) ==
    IF NeedsNewSession(S)
    THEN Call(SessionRequestPc(S), "refresh", 1)
    ELSE Call("gu_list", "refresh", 0)

\* A callback that refreshes whatever keepAlive is.
RenewalNeverDisabled == FALSE

\* Line 439: keepAlive as it is when the timer fires.
RenewalDisabled == keepAlive = FALSE

\* A callback that sets the timer again as a renewal does.
RearmLong == FALSE

\* Line 456: the shortTimeout the callback sets the timer again with.
RearmShort == TRUE

\* The callback has run: it delivers nothing to any caller.
Fired == Outcome("expiryTimerCallback", "none", "none", "none", 0)

\* A pending timeout whose time has come fires.  expiryTimerCallback: with
\* keepAlive off it clears the timer and stops; otherwise it starts
\* getUsers(true) without awaiting it (the background refresh) and sets the
\* timer again with shortTimeout = true.
expiryTimerCallback(t) ==
    /\ t \in timers
    /\ FireTime(t) <= now
    /\ last' = Fired
    /\ IF RenewalDisabled
       THEN /\ timers' = clearExpiryTimer(Session, timers \ {t})
            /\ UNCHANGED <<Session, inflight, fetchingNewSession>>
       ELSE /\ BagCardinality(inflight) < NumCallers
            /\ inflight' = inflight (+) SetToBag({RefreshCall(Session)})
            /\ fetchingNewSession' = (fetchingNewSession \/ NeedsNewSession(Session))
            /\ LET r == setExpiryTimer(Session, timers \ {t}, RearmShort)
               IN  /\ Session' = r.S
                   /\ timers' = r.T
    /\ UNCHANGED <<stored, keepAlive, envCI, storageRefuses, now, account>>

\* getUsers(true), lines 529-539, on the answer of api.user.list(): the
\* Session after it; ok = FALSE when getUserType throws.
UsersFromList(S, userList) ==
    LET userInfoParsed == getUserType(userList)
        oauth == parseOauthUser(S, userInfoParsed)
    IN  IF ~userInfoParsed.ok
        THEN [ok |-> FALSE, S |-> S]
        ELSE IF userInfoParsed.isOAuth
        THEN [ok |-> oauth.ok, S |-> oauth.S]
        ELSE [ok |-> TRUE,
              S |-> [S EXCEPT !.userInfo[userInfoParsed.type] = userInfoParsed.info]]

\* api.user.list() answers or fails; the refresh's outcome is only logged.
refreshUsersListed(c) ==
    /\ c \in Suspended
    /\ c.pc = "gu_list"
    /\ c.op = "refresh"
    /\ \/ \E userList \in UserInfos :
            LET r == UsersFromList(Session, userList)
            IN  /\ Session' = r.S
                /\ Return(c, Outcome("refresh", IF r.ok THEN "ok" ELSE "logged",
                                     "none", IF r.ok THEN "none" ELSE "unsupported",
                                     c.calls))
       \/ \E cause \in NetworkFailures :
            /\ Session' = Session
            /\ Return(c, Outcome("refresh", "logged", "none", cause, c.calls))
    /\ UNCHANGED <<stored, keepAlive, fetchingNewSession, timers, envCI, storageRefuses, now, account>>

\* ------------------------------------------------------- getUsers
\* What api.user.list() may answer to a caller of getUsers(true): the
\* account as it was, the account after its owner changed a setting, or a
\* payload with no known field.
UpdatedInfo(info) ==
    IF info.def /\ info.session_timeout # NULL
    THEN [info EXCEPT !.session_timeout = info.session_timeout + 20]
    ELSE info
UpdatedAccount(a) ==
    [f \in UserFieldSet |->
        IF a[f].nested = <<>>
        THEN UpdatedInfo(a[f])
        ELSE [a[f] EXCEPT !.nested =
                 <<a[f].nested[1],
                   [g \in UserFieldSet |-> UpdatedInfo(a[f].nested[2][g])]>>]]
UserLists == {account, UpdatedAccount(account), EmptyObj}

\* getUsers(true) called by the application, up to its await: the request
\* goes through the adapter like that of the background refresh.
getUsers ==
    /\ Suspend([RefreshCall(Session) EXCEPT !.op = "getUsers"])
    /\ fetchingNewSession' = (fetchingNewSession \/ NeedsNewSession(Session))
    /\ UNCHANGED <<Session, stored, keepAlive, timers, envCI, storageRefuses, now, account>>

\* api.user.list() answers or fails: lines 529-542; the caller gets the
\* users or the error.
getUsersListed(c) ==
    /\ c \in Suspended
    /\ c.pc = "gu_list"
    /\ c.op = "getUsers"
    /\ \/ \E userList \in UserLists :
            LET r == UsersFromList(Session, userList)
            IN  /\ Session' = r.S
                /\ Return(c, Outcome("getUsers", IF r.ok THEN "ok" ELSE "error",
                                     "none", IF r.ok THEN "none" ELSE "unsupported",
                                     c.calls))
       \/ \E cause \in NetworkFailures :
            /\ Session' = Session
            /\ Return(c, Outcome("getUsers", "error", "none", cause, c.calls))
    /\ UNCHANGED <<stored, keepAlive, fetchingNewSession, timers, envCI, storageRefuses, now, account>>

\* ------------------------------------------------------- run
\* Session.setupKeypair(force): a fresh key pair, different from the old one.
NewKey(k) == IF k = 1 THEN 2 ELSE 1

\* Session.setup(...): the stored session, if there is one, is loaded; with an
\* encryption key the key pair is set up (reused when one is stored).
SessionSetup(S, st, withKey) ==
    LET hasSession == [st EXCEPT !.publicKey = NULL] # FreshSession
        loaded == IF hasSession
                  THEN [st EXCEPT !.sessionExpiryTimeChecker = S.sessionExpiryTimeChecker,
                                  !.publicKey = S.publicKey]
                  ELSE S
    IN  IF withKey
        THEN [loaded EXCEPT !.publicKey =
                 IF st.publicKey # NULL THEN st.publicKey ELSE NewKey(NULL)]
        ELSE loaded

run ==
    /\ Suspend(Call("run_setup", "run", 0))
    /\ UNCHANGED <<Session, stored, keepAlive, fetchingNewSession, timers, envCI, storageRefuses, now, account>>

\* Session.setup() done: setExpiryTimer(), then ApiAdapter.setup(), which
\* changes nothing of this state.  When a new key pair had to be written and
\* the storage refused it, the await of line 86 throws and run stops there.
runSetupDone(c) ==
    /\ c \in Suspended
    /\ c.pc = "run_setup"
    /\ \E withKey \in BOOLEAN :
        LET S1 == SessionSetup(Session, stored, withKey)
            r == setExpiryTimer(S1, timers, FALSE)
        IN  IF storageRefuses /\ withKey /\ stored.publicKey = NULL
            THEN /\ Session' = S1
                 /\ UNCHANGED <<timers, stored>>
                 /\ Return(c, Outcome("run", "error", "none", "storage", 0))
            ELSE /\ Session' = r.S
                 /\ timers' = r.T
                 /\ stored' = [stored EXCEPT !.publicKey = S1.publicKey]
                 /\ Return(c, Outcome("run", "ok", "none", "none", 0))
    /\ UNCHANGED <<keepAlive, fetchingNewSession, envCI, storageRefuses, now, account>>

\* ------------------------------------------------------- install
\* An install that sends its request whatever the Session holds.
InstallAlways(S) == TRUE

\* Line 114: install has something to do.
InstallNeeded(S) == verifyInstallation(S) = FALSE

\* An install that does not look for the public key.
KeyNeverMissing(S) == FALSE

\* Line 116: there is no public key to send.
KeyMissing(S) == S.publicKey = NULL

\* install() up to its await: true at once when installed, an error at once
\* without a public key, otherwise api.installation.add() is awaited.
install ==
    /\ IF InstallNeeded(Session)
       THEN IF KeyMissing(Session)
            THEN ReturnAtOnce(Outcome("install", "error", "none", "nokey", 0))
            ELSE Suspend(Call("in_add", "install", 0))
       ELSE ReturnAtOnce(Outcome("install", "ok", "none", "none", 0))
    /\ UNCHANGED <<Session, stored, keepAlive, fetchingNewSession, timers, envCI, storageRefuses, now, account>>

\* api.installation.add() answers (line 125, then publicKeyFromPem is
\* awaited) or fails (the error reaches the caller).
installResponse(c) ==
    /\ c \in Suspended
    /\ c.pc = "in_add"
    /\ \/ /\ Session' = [Session EXCEPT !.serverPublicKeyPem = 1]
          /\ Resume(c, "in_pem")
       \/ \E cause \in NetworkFailures :
            /\ Session' = Session
            /\ Return(c, Outcome("install", "error", "none", cause, 0))
    /\ UNCHANGED <<stored, keepAlive, fetchingNewSession, timers, envCI, storageRefuses, now, account>>

\* publicKeyFromPem done: lines 126-134, up to the awaited storeSession.
installKeyParsed(c) ==
    /\ c \in Suspended
    /\ c.pc = "in_pem"
    /\ LET S1 == [Session EXCEPT !.serverPublicKey = 1, !.installToken = 1,
                                 !.installUpdated = 1, !.installCreated = 1]
       IN  /\ Session' = S1
           /\ stored' = StoredAfter(S1)
    /\ Resume(c, "in_store")
    /\ UNCHANGED <<keepAlive, fetchingNewSession, timers, envCI, storageRefuses, now, account>>

installStored(c) ==
    /\ c \in Suspended
    /\ c.pc = "in_store"
    /\ Return(c, AfterStore("install", Outcome("install", "ok", "none", "none", 0)))
    /\ UNCHANGED <<Session, stored, keepAlive, fetchingNewSession, timers, envCI, storageRefuses, now, account>>

\* ------------------------------------------------------- registerDevice
\* The ways api.deviceRegistration.add() fails: without a transport response,
\* or with a response of some status.
DeviceFailures ==
    {[response |-> FALSE, status |-> 0, storage |-> FALSE],
     [response |-> TRUE, status |-> BAD_REQUEST, storage |-> FALSE],
     [response |-> TRUE, status |-> 403, storage |-> FALSE]}

\* How a failure is named in the outcome handed to the caller.
FailureName(f) ==
    IF f.storage THEN "storage"
    ELSE IF ~f.response THEN "network"
    ELSE IF f.status = BAD_REQUEST THEN "400" ELSE "403"

\* A catch block that destroys the installation on whatever failure.
DestroysOnAnyFailure(f) == TRUE

\* Line 163: the response status on which the installation is destroyed.
DestroysInstallation(f) == f.response /\ f.status = BAD_REQUEST

\* A wipe that empties the server public key and leaves the install token.
WipeServerKeyOnly(S) ==
    [S EXCEPT !.serverPublicKeyPem = NULL, !.serverPublicKey = NULL]

\* Lines 165-169.
WipeInstallation(S) ==
    [S EXCEPT !.serverPublicKeyPem = NULL, !.serverPublicKey = NULL,
              !.installToken = NULL, !.installUpdated = NULL,
              !.installCreated = NULL]

\* registerDevice() up to its await.  The server can only accept the
\* registration of a request that carried an install token.
registerDevice ==
    /\ IF verifyDeviceInstallation(Session) = FALSE
       THEN Suspend(Call(IF Session.installToken # NULL THEN "rd_add" ELSE "rd_add_notoken",
                         "registerDevice", 0))
       ELSE ReturnAtOnce(Outcome("registerDevice", "ok", "none", "none", 0))
    /\ UNCHANGED <<Session, stored, keepAlive, fetchingNewSession, timers, envCI, storageRefuses, now, account>>

\* The device is registered: lines 153-156, up to the awaited storeSession.
registerDeviceResponse(c) ==
    /\ c \in Suspended
    /\ c.pc = "rd_add"
    /\ LET S1 == [Session EXCEPT !.deviceId = 1]
       IN  /\ Session' = S1
           /\ stored' = StoredAfter(S1)
    /\ Resume(c, "rd_store")
    /\ UNCHANGED <<keepAlive, fetchingNewSession, timers, envCI, storageRefuses, now, account>>

registerDeviceStored(c) ==
    /\ c \in Suspended
    /\ c.pc = "rd_store"
    /\ IF storageRefuses
       THEN Resume(c, "rd_caught")
       ELSE Return(c, Outcome("registerDevice", "ok", "none", "none", 0))
    /\ UNCHANGED <<Session, stored, keepAlive, fetchingNewSession, timers, envCI, storageRefuses, now, account>>

\* The registration fails (the catch block): rethrown at once, or, on the
\* status of line 163, after the installation is wiped, up to the awaited
\* setupKeypair(true).  The storeSession of line 156 is inside the try: its
\* rejection is caught too, and carries no response.
registerDeviceFail(c) ==
    /\ c \in Suspended
    /\ c.pc \in {"rd_add", "rd_add_notoken", "rd_caught"}
    /\ \E f \in IF c.pc = "rd_caught"
                THEN {[response |-> FALSE, status |-> 0, storage |-> TRUE]}
                ELSE DeviceFailures :
        IF DestroysInstallation(f)
        THEN /\ Session' = WipeInstallation(Session)
             /\ ResumeAs(c, [c EXCEPT !.pc = "rd_keypair", !.error = FailureName(f)])
        ELSE /\ Session' = Session
             /\ Return(c, Outcome("registerDevice", "error", "none", FailureName(f), 0))
    /\ UNCHANGED <<stored, keepAlive, fetchingNewSession, timers, envCI, storageRefuses, now, account>>

\* setupKeypair(true) done: a new key pair is in place (and stored), and
\* storeSession is awaited.  A storage that refuses the key makes
\* setupKeypair reject, and the catch block throws that rejection.
registerDeviceKeypair(c) ==
    /\ c \in Suspended
    /\ c.pc = "rd_keypair"
    /\ LET S1 == [Session EXCEPT !.publicKey = NewKey(Session.publicKey)]
       IN  /\ Session' = S1
           /\ stored' = StoredAfter(S1)
    /\ IF storageRefuses
       THEN Return(c, Outcome("registerDevice", "error", "none", "storage", 0))
       ELSE Resume(c, "rd_wiped")
    /\ UNCHANGED <<keepAlive, fetchingNewSession, timers, envCI, storageRefuses, now, account>>

\* storeSession() done: the error is rethrown.
registerDeviceWiped(c) ==
    /\ c \in Suspended
    /\ c.pc = "rd_wiped"
    /\ Return(c, Outcome("registerDevice", "error", "none", c.error, 0))
    /\ UNCHANGED <<Session, stored, keepAlive, fetchingNewSession, timers, envCI, storageRefuses, now, account>>

\* ------------------------------------------------------- logout
\* Session.destroyApiSession(): the session fields are emptied.
ClearApiSession(S) ==
    [S EXCEPT !.sessionId = NULL, !.sessionToken = NULL, !.sessionTokenId = NULL,
              !.sessionExpiryTime = NULL, !.sessionTimeout = 0,
              !.userInfo = EmptyObj]

\* Session.destroySession(): the installation, the device and the session
\* are emptied; the key pair and the timer handle stay.
ClearSession(S) ==
    [FreshSession EXCEPT !.publicKey = S.publicKey,
                         !.sessionExpiryTimeChecker = S.sessionExpiryTimeChecker]

\* Lines 476-479: the timer is cleared and Session.destroySession() called.
DestroyLocal ==
    /\ timers' = clearExpiryTimer(Session, timers)
    /\ Session' = ClearSession(Session)
    /\ stored' = StoredAfter(ClearSession(Session))

\* destroySession() up to its first await: the remote session is deleted
\* first when installation, device and session are all valid.
destroySession ==
    /\ IF /\ verifyInstallation(Session)
          /\ verifyDeviceInstallation(Session)
          /\ verifySessionInstallation(Session)
       THEN /\ Suspend(Call("ds_delete", "destroySession", 0))
            /\ UNCHANGED <<Session, stored, timers>>
       ELSE /\ Suspend(Call("ds_store", "destroySession", 0))
            /\ DestroyLocal
    /\ UNCHANGED <<keepAlive, fetchingNewSession, envCI, storageRefuses, now, account>>

\* api.sessionServer.delete() done; a failure is caught by the empty catch
\* of line 473 and dropped, and the call goes on as after a success.
destroySessionDeleted(c) ==
    /\ c \in Suspended
    /\ c.pc = "ds_delete"
    /\ inflight' = (inflight (-) SetToBag({c})) (+) SetToBag({[c EXCEPT !.pc = "ds_store"]})
    /\ \/ last' = NoOutcome
       \/ \E cause \in NetworkFailures :
            last' = Outcome("destroySession", "dropped", "none", cause, 0)
    /\ DestroyLocal
    /\ UNCHANGED <<keepAlive, fetchingNewSession, envCI, storageRefuses, now, account>>

destroySessionDone(c) ==
    /\ c \in Suspended
    /\ c.pc = "ds_store"
    /\ Return(c, AfterStore("destroySession",
                             Outcome("destroySession", "ok", "none", "none", 0)))
    /\ UNCHANGED <<Session, stored, keepAlive, fetchingNewSession, timers, envCI, storageRefuses, now, account>>

\* destroyApiSession() up to its await.
destroyApiSession ==
    /\ Suspend(Call("das_store", "destroyApiSession", 0))
    /\ timers' = clearExpiryTimer(Session, timers)
    /\ Session' = ClearApiSession(Session)
    /\ stored' = StoredAfter(ClearApiSession(Session))
    /\ UNCHANGED <<keepAlive, fetchingNewSession, envCI, storageRefuses, now, account>>

destroyApiSessionDone(c) ==
    /\ c \in Suspended
    /\ c.pc = "das_store"
    /\ Return(c, AfterStore("destroyApiSession",
                             Outcome("destroyApiSession", "ok", "none", "none", 0)))
    /\ UNCHANGED <<Session, stored, keepAlive, fetchingNewSession, timers, envCI, storageRefuses, now, account>>

\* ------------------------------------------------------- the specification
Next ==
    \/ Advance
    \/ \E k \in BOOLEAN : setKeepAlive(k)
    \/ \E t \in timers : expiryTimerCallback(t)
    \/ run
    \/ install
    \/ registerDevice
    \/ registerSession
    \/ destroySession
    \/ destroyApiSession
    \/ \E c \in Suspended : runSetupDone(c)
    \/ \E c \in Suspended : installResponse(c)
    \/ \E c \in Suspended : installKeyParsed(c)
    \/ \E c \in Suspended : installStored(c)
    \/ \E c \in Suspended : registerDeviceResponse(c)
    \/ \E c \in Suspended : registerDeviceStored(c)
    \/ \E c \in Suspended : registerDeviceFail(c)
    \/ \E c \in Suspended : registerDeviceKeypair(c)
    \/ \E c \in Suspended : registerDeviceWiped(c)
    \/ \E c \in Suspended : generateSessionFail(c)
    \/ \E c \in Suspended : generateSessionResponse(c)
    \/ \E c \in Suspended : generateSessionStored(c)
    \/ \E c \in Suspended : refreshUsersListed(c)
    \/ \E c \in Suspended : destroySessionDone(c)
    \/ \E c \in Suspended : destroySessionDeleted(c)
    \/ \E c \in Suspended : destroyApiSessionDone(c)

Spec == Init /\ [][Next]_vars

\* The session life cycle of a client that is installed and has registered
\* its device: run, registerSession, the timer, setKeepAlive and logout.
RegisteredSession ==
    [FreshSession EXCEPT !.publicKey = 1,
                         !.serverPublicKeyPem = 1, !.serverPublicKey = 1,
                         !.installToken = 1, !.installUpdated = 1,
                         !.installCreated = 1, !.deviceId = 1]

InitRegistered ==
    /\ Session = RegisteredSession
    /\ stored = RegisteredSession
    /\ keepAlive = TRUE
    /\ fetchingNewSession = FALSE
    /\ timers = {}
    /\ envCI \in BOOLEAN
    /\ storageRefuses \in BOOLEAN
    /\ account \in Accounts
    /\ now = 0
    /\ inflight = EmptyBag
    /\ last = NoOutcome

NextSession ==
    \/ Advance
    \/ \E k \in BOOLEAN : setKeepAlive(k)
    \/ \E t \in timers : expiryTimerCallback(t)
    \/ run
    \/ registerSession
    \/ destroySession
    \/ destroyApiSession
    \/ \E c \in Suspended : runSetupDone(c)
    \/ \E c \in Suspended : generateSessionFail(c)
    \/ \E c \in Suspended : generateSessionResponse(c)
    \/ \E c \in Suspended : generateSessionStored(c)
    \/ \E c \in Suspended : refreshUsersListed(c)
    \/ \E c \in Suspended : destroySessionDone(c)
    \/ \E c \in Suspended : destroySessionDeleted(c)
    \/ \E c \in Suspended : destroyApiSessionDone(c)

SpecSession == InitRegistered /\ [][NextSession]_vars

\* The handshake of a new client: run, install and registerDevice, with
\* logout.
NextInstall ==
    \/ run
    \/ install
    \/ registerDevice
    \/ destroySession
    \/ \E c \in Suspended : runSetupDone(c)
    \/ \E c \in Suspended : installResponse(c)
    \/ \E c \in Suspended : installKeyParsed(c)
    \/ \E c \in Suspended : installStored(c)
    \/ \E c \in Suspended : registerDeviceResponse(c)
    \/ \E c \in Suspended : registerDeviceStored(c)
    \/ \E c \in Suspended : registerDeviceFail(c)
    \/ \E c \in Suspended : registerDeviceKeypair(c)
    \/ \E c \in Suspended : registerDeviceWiped(c)
    \/ \E c \in Suspended : destroySessionDone(c)

SpecInstall == Init /\ [][NextInstall]_vars

\* The principal refresh of a client with a registered device: the
\* application renews the session and asks for the users.
NextUsers ==
    \/ Advance
    \/ registerSession
    \/ getUsers
    \/ \E c \in Suspended : generateSessionFail(c)
    \/ \E c \in Suspended : generateSessionResponse(c)
    \/ \E c \in Suspended : generateSessionStored(c)
    \/ \E c \in Suspended : getUsersListed(c)

SpecUsers == InitRegistered /\ [][NextUsers]_vars

\* The life of a client whose application calls one operation at a time,
\* from the handshake to the logout, with the timer's background refresh
\* running beside it.
Idle == inflight = EmptyBag
NextErrors ==
    \/ Advance
    \/ \E t \in timers : expiryTimerCallback(t)
    \/ Idle /\ run
    \/ Idle /\ install
    \/ Idle /\ registerDevice
    \/ Idle /\ registerSession
    \/ Idle /\ destroySession
    \/ Idle /\ destroyApiSession
    \/ \E c \in Suspended : runSetupDone(c)
    \/ \E c \in Suspended : installResponse(c)
    \/ \E c \in Suspended : installKeyParsed(c)
    \/ \E c \in Suspended : installStored(c)
    \/ \E c \in Suspended : registerDeviceResponse(c)
    \/ \E c \in Suspended : registerDeviceStored(c)
    \/ \E c \in Suspended : registerDeviceFail(c)
    \/ \E c \in Suspended : registerDeviceKeypair(c)
    \/ \E c \in Suspended : registerDeviceWiped(c)
    \/ \E c \in Suspended : generateSessionFail(c)
    \/ \E c \in Suspended : generateSessionResponse(c)
    \/ \E c \in Suspended : generateSessionStored(c)
    \/ \E c \in Suspended : refreshUsersListed(c)
    \/ \E c \in Suspended : destroySessionDeleted(c)
    \/ \E c \in Suspended : destroySessionDone(c)
    \/ \E c \in Suspended : destroyApiSessionDone(c)

SpecErrors == Init /\ [][NextErrors]_vars

\* The classification of the principal, on every shape of user object: a
\* client with a registered device whose application renews the session and
\* asks for the users, the server answering with the shape at hand.
InitShapes ==
    /\ Session = RegisteredSession
    /\ stored = RegisteredSession
    /\ keepAlive = TRUE
    /\ fetchingNewSession = FALSE
    /\ timers = {}
    /\ envCI = FALSE
    /\ storageRefuses = FALSE
    /\ account \in Shapes
    /\ now = 0
    /\ inflight = EmptyBag
    /\ last = NoOutcome

SpecClassify == InitShapes /\ [][NextUsers]_vars

\* =========================================================== the claims

\* The session-creation requests of registerSession callers that are out.
SessionRequestsOut ==
    {c \in Suspended : c.op = "registerSession" /\ c.pc \in {"gs_add", "gs_add_rej"}}
RequestsOutCount ==
    LET n[R \in SUBSET SessionRequestsOut] ==
            IF R = {} THEN 0
            ELSE LET c == CHOOSE x \in R : TRUE
                 IN  CopiesIn(c, inflight) + n[R \ {c}]
    IN  n[SessionRequestsOut]

\* C1 (as claimed): registerSession calls that start while a renewal is in
\* flight share its one session-creation request, so the callers of
\* registerSession never have more than one such request out.
C1_SingleFlight == RequestsOutCount <= 1

\* The latest step delivered the outcome of a registerSession call that ran
\* generateSession.
RenewalDelivered == last.op = "registerSession" /\ last.calls > 0

\* A failed renewal was just delivered and registerSession is called again
\* while the session is still not usable.
CallAfterFailedRenewal ==
    /\ RenewalDelivered
    /\ last.result = "error"
    /\ NeedsNewSession(Session)
    /\ registerSession

\* C2: fetchingNewSession is cleared when registerSession delivers the
\* success or the failure of a renewal, and a registerSession call made
\* right after a failed renewal sends a session-creation request of its own
\* instead of replaying the rejection.
C2_MarkerCleared ==
    /\ [](RenewalDelivered => fetchingNewSession = FALSE)
    /\ [][CallAfterFailedRenewal =>
            /\ RequestsOutCount' = RequestsOutCount + 1
            /\ last'.result = "none"]_vars
\* A failed renewal has just been delivered, with the marker cleared, the
\* session still not usable and room for the next call.
C2_Witness ==
    /\ RenewalDelivered
    /\ last.result = "error"
    /\ fetchingNewSession = FALSE
    /\ NeedsNewSession(Session)
    /\ BagCardinality(inflight) < NumCallers

\* A suspended call leaves, or arrives at, the given position in this step.
Left(pc) ==
    \E c \in Suspended : c.pc = pc /\ CopiesIn(c, inflight') < CopiesIn(c, inflight)
Entered(pc) ==
    \E c \in BagToSet(inflight') : c.pc = pc /\ CopiesIn(c, inflight') > CopiesIn(c, inflight)

\* The five fields of the Installation are empty.
InstallationWiped(S) ==
    /\ S.serverPublicKeyPem = NULL
    /\ S.serverPublicKey = NULL
    /\ S.installToken = NULL
    /\ S.installUpdated = NULL
    /\ S.installCreated = NULL

\* The latest step delivered the failure of registerDevice with this cause.
DeviceFailureDelivered(causes) ==
    /\ last.op = "registerDevice"
    /\ last.result = "error"
    /\ last.error \in causes

\* C3 (as claimed): when registerDevice rethrows a device-registration
\* failure of the 4xx class, the Installation is empty, a fresh key pair is
\* in place and the wiped state is stored.
C3_Original ==
    DeviceFailureDelivered({"400", "403"}) =>
        /\ InstallationWiped(Session)
        /\ ~verifyInstallation(Session)
        /\ InstallationWiped(stored)
        /\ stored.publicKey = Session.publicKey
\* C3 (amended): only on a status 400 response does registerDevice wipe.  In
\* the step that receives it the five Installation fields are emptied, so
\* that install() would send a new request; the step after it puts a fresh
\* key pair in place and stores the state; the 400 failure is rethrown only
\* after that.  Any other failure is rethrown with the state as it was.
\* (When the storage refuses the new key pair, that rejection is thrown in
\* place of the 400 failure.)
C3_WipeOn400 ==
    [][/\ (Left("rd_add") \/ Left("rd_add_notoken")) /\ Entered("rd_keypair") =>
            /\ InstallationWiped(Session')
            /\ ~verifyInstallation(Session')
            /\ last'.result = "none"
       /\ Left("rd_keypair") /\ storageRefuses =>
            /\ DeviceFailureDelivered({"storage"})'
            /\ stored' = stored
       /\ Left("rd_keypair") /\ ~storageRefuses =>
            /\ Entered("rd_wiped")
            /\ Session'.publicKey # Session.publicKey
            /\ Session'.publicKey # NULL
            /\ stored' = Persisted(Session')
            /\ last'.result = "none"
       /\ DeviceFailureDelivered({"400"})' => Left("rd_wiped")
       /\ DeviceFailureDelivered({"403", "network"})' =>
            /\ Left("rd_add") \/ Left("rd_add_notoken")
            /\ Session' = Session
            /\ stored' = stored]_vars
\* A 400 failure was rethrown: the Installation is empty in memory and in the
\* storage, and the key pair is the regenerated one.
C3_Witness ==
    /\ DeviceFailureDelivered({"400"})
    /\ InstallationWiped(Session)
    /\ ~verifyInstallation(Session)
    /\ InstallationWiped(stored)
    /\ Session.publicKey = 2
    /\ stored.publicKey = 2

\* C4: at most one renewal timer is pending, and it is the one whose handle
\* the Session holds, so that the next setExpiryTimer cancels it.
C4_OneTimer ==
    /\ Cardinality(timers) <= 1
    /\ \A t \in timers : t.id = Session.sessionExpiryTimeChecker
\* A timer set by run or by a renewal is pending, set after the clock moved
\* on from the time the first timer was set.
C4_Witness ==
    /\ Cardinality(timers) = 1
    /\ \E t \in timers : ~t.short /\ t.armedAt > 0 /\ t.armedAt = now

\* The session timeout capped at five minutes, less the margin.
CappedDelay(S) ==
    (IF S.sessionTimeout > FIVE_MINUTES_MS THEN FIVE_MINUTES_MS ELSE S.sessionTimeout)
        - EXPIRY_MARGIN_MS
\* The latest step delivered the success of a registerSession call that
\* renewed the session, and setExpiryTimer had a timer to set.
RenewalSucceeded ==
    /\ RenewalDelivered
    /\ last.result = "ok"
    /\ ~envCI
    /\ keepAlive
    /\ Session.sessionExpiryTime # NULL

\* C5 (as claimed): the timer pending after a renewal has the capped delay,
\* min(sessionTimeout, 300000) - 15000.
C5_Original ==
    RenewalSucceeded => \A t \in timers : t.delay = CappedDelay(Session)
\* C5 (amended): the capped delay is that of the timers the timer callback
\* sets (shortTimeout = true); the timer pending after a renewal is set with
\* shortTimeout = false and its delay is the full remaining time to expiry,
\* expiry - now - 15000.
C5_CapOnCallbackOnly ==
    /\ \A t \in timers : t.short => t.delay = CappedDelay(Session)
    /\ RenewalSucceeded =>
          /\ timers # {}
          /\ \A t \in timers :
                /\ ~t.short
                /\ t.delay = Session.sessionExpiryTime - now - EXPIRY_MARGIN_MS
\* The callback has set a timer with the five-minute cap, on a session whose
\* timeout is longer than that.
C5_Witness ==
    /\ Session.sessionTimeout > FIVE_MINUTES_MS
    /\ \E t \in timers : t.short /\ t.delay = FIVE_MINUTES_MS - EXPIRY_MARGIN_MS

\* setKeepAlive(false) is the step taken.
KeepAliveSwitchedOff == keepAlive /\ ~keepAlive'
\* A renewal has set the Session and its timer is not set yet.
RenewalBeingStored == \E c \in Suspended : c.pc = "gs_store"

\* C6 (as claimed): every pending timer fires at the session expiry less
\* 15000 ms, and with keepAlive switched off no timer is pending.
C6_Original ==
    /\ \A t \in timers : FireTime(t) = Session.sessionExpiryTime - EXPIRY_MARGIN_MS
    /\ keepAlive = FALSE => timers = {}
\* C6 (amended): a timer set by run or by a renewal (shortTimeout = false)
\* fires at the session expiry less 15000 ms, and such a timer is pending
\* when a renewal succeeds; a timer set by the callback fires the capped
\* session timeout less 15000 ms after it was set, whatever the expiry is;
\* setKeepAlive(false) leaves the pending timer as it is.
C6_TimerFollowsExpiry ==
    /\ [](~RenewalBeingStored =>
            \A t \in timers :
                ~t.short => FireTime(t) = Session.sessionExpiryTime - EXPIRY_MARGIN_MS)
    /\ [](RenewalSucceeded =>
            \E t \in timers :
                FireTime(t) = Session.sessionExpiryTime - EXPIRY_MARGIN_MS)
    /\ [](\A t \in timers : t.short => FireTime(t) = t.armedAt + CappedDelay(Session))
    /\ [][KeepAliveSwitchedOff => timers' = timers]_vars
\* keepAlive is off and the timer of the latest renewal is still pending.
C6_Witness ==
    /\ keepAlive = FALSE
    /\ \E t \in timers :
          /\ ~t.short
          /\ FireTime(t) = Session.sessionExpiryTime - EXPIRY_MARGIN_MS
          /\ FireTime(t) > now

\* C7: while keepAlive is false no step schedules a timer, and a call of
\* setExpiryTimer (at the end of run's setup and of generateSession) leaves
\* no timer pending.
C7_DisabledRenewal ==
    [][keepAlive = FALSE =>
          /\ timers' \subseteq timers
          /\ (Left("run_setup") \/ Left("gs_store")) => timers' = {}]_vars
\* keepAlive is off, a renewal has just succeeded and the timer that was set
\* before is gone.
C7_Witness ==
    /\ keepAlive = FALSE
    /\ ~envCI
    /\ RenewalDelivered
    /\ last.result = "ok"
    /\ Session.sessionExpiryTime # NULL
    /\ Session.sessionExpiryTimeChecker # NULL
    /\ timers = {}

\* The latest step delivered the completion of a logout.
LogoutDelivered ==
    /\ last.op \in {"destroySession", "destroyApiSession"}
    /\ last.result = "ok"

\* C8 (as claimed): when destroySession or destroyApiSession completes, the
\* session is cleared and no renewal timer is pending, whatever was in
\* flight when the logout was called.
C8_LogoutClears ==
    LogoutDelivered =>
        /\ Session.sessionId = NULL
        /\ Session.sessionExpiryTime = NULL
        /\ timers = {}

\* C9 (as claimed): a later stage is treated as valid only while the earlier
\* ones are present: a usable session needs the Installation, the
\* DeviceRegistration and an expiry in the future, and a valid
\* DeviceRegistration needs the Installation.
C9_StageOrder ==
    /\ ~NeedsNewSession(Session) =>
          /\ verifyInstallation(Session)
          /\ verifyDeviceInstallation(Session)
          /\ Session.sessionExpiryTime > now
    /\ verifyDeviceInstallation(Session) => verifyInstallation(Session)

\* The latest step delivered the failure of a registerSession call whose
\* session-creation request failed.
CreationFailureDelivered ==
    /\ last.op = "registerSession"
    /\ last.result = "error"
    /\ last.error \notin {"unsupported", "storage"}

\* C10 (as claimed): a failed session creation is delivered with the error
\* kind SESSION_CREATION_FAILED, the original error as its cause, after
\* exactly one session-creation request.
C10_Original ==
    CreationFailureDelivered =>
        /\ last.errorCode = "SESSION_CREATION_FAILED"
        /\ last.error \in NetworkFailures
        /\ last.calls = 1
\* C10 (amended): a failed session creation is delivered with the error
\* code INSTALLATION_HAS_SESSION, the original error as its cause, after
\* exactly one session-creation request.
C10_WrappedError ==
    CreationFailureDelivered =>
        /\ last.errorCode = INSTALLATION_HAS_SESSION
        /\ last.error \in NetworkFailures
        /\ last.calls = 1
\* A session creation that failed without a transport response was delivered.
C10_Witness ==
    /\ CreationFailureDelivered
    /\ last.error = "network"
    /\ last.errorCode = INSTALLATION_HAS_SESSION

\* C11 (as claimed): every operation stores the Session after it changed
\* it, so with no operation in progress, and a storage that takes the
\* writes, the stored Session is the one in memory.
C11_PersistedAtRest ==
    inflight = EmptyBag /\ ~storageRefuses => stored = Persisted(Session)

\* The operations of the core.
CoreOps ==
    {"install", "registerDevice", "registerSession", "destroySession",
     "destroyApiSession"}

\* C12 (as claimed): a failure is swallowed (logged, or dropped without a
\* trace) in the background refresh only.
C12_Original ==
    last.result \in {"logged", "dropped"} => last.op = "refresh"
\* C12 (amended): a failure is logged only in the background refresh, and
\* dropped only in destroySession, where it is the failure of the request
\* that deletes the remote session; every other failure reaches the caller:
\* with a storage that refuses the writes, a core operation succeeds only
\* when it returned without awaiting anything.
C12_Propagation ==
    /\ [](last.result = "logged" => last.op = "refresh")
    /\ [](last.result = "dropped" =>
            last.op = "destroySession" /\ last.error \in NetworkFailures)
    /\ [](last.op \in CoreOps /\ last.error # "none" => last.result # "ok")
    /\ [][storageRefuses /\ last'.op \in CoreOps /\ last'.result = "ok" =>
             inflight' = inflight]_vars
\* destroySession was handed the rejection of the storage, after it had
\* emptied the Session in memory.
C12_Witness ==
    /\ last.op = "destroySession"
    /\ last.result = "error"
    /\ last.error = "storage"
    /\ storageRefuses
    /\ Session.sessionId = NULL
    /\ Session.publicKey # NULL

\* The step is a call of install that returned without an await.
InstallReturnedAtOnce == last'.op = "install" /\ inflight' = inflight

\* C13: while the installation is valid no step sends an installation
\* request, and a call of install returns success at once and leaves the
\* Session and the storage as they were, however often it is called.
C13_InstallIdempotent ==
    [][verifyInstallation(Session) =>
          /\ ~Entered("in_add")
          /\ InstallReturnedAtOnce =>
                /\ last'.result = "ok"
                /\ Session' = Session
                /\ stored' = stored
                /\ timers' = timers]_vars
\* install returned success on a client that is installed and has its
\* device registered, with no installation request out.
C13_Witness ==
    /\ last.op = "install"
    /\ last.result = "ok"
    /\ verifyInstallation(Session)
    /\ verifyDeviceInstallation(Session)
    /\ \A c \in Suspended : c.op # "install"

\* C14: a device registration that failed without a transport response is
\* rethrown as it is, from the step that received it, with the Session (the
\* Installation, the device id and the key pair) and the storage unchanged.
C14_NetworkFailureRethrown ==
    [][DeviceFailureDelivered({"network"})' =>
          /\ Left("rd_add") \/ Left("rd_add_notoken")
          /\ last'.errorCode = "none"
          /\ Session' = Session
          /\ stored' = stored]_vars
\* The failure without a response was rethrown on an installed client whose
\* device is still not registered.
C14_Witness ==
    /\ DeviceFailureDelivered({"network"})
    /\ verifyInstallation(Session)
    /\ ~verifyDeviceInstallation(Session)
    /\ Session.publicKey # NULL
    /\ stored = Persisted(Session)

\* C17: while the installation is not valid and there is no public key, no
\* step sends an installation request, and a call of install fails at once
\* with the error that names the missing key and leaves the Session and the
\* storage as they were.
C17_NoKeyNoInstall ==
    [][~verifyInstallation(Session) /\ Session.publicKey = NULL =>
          /\ ~Entered("in_add")
          /\ InstallReturnedAtOnce =>
                /\ last' = Outcome("install", "error", "none", "nokey", 0)
                /\ Session' = Session
                /\ stored' = stored]_vars
\* install failed for want of a key, after run had loaded a client that has
\* no key pair.
C17_Witness ==
    /\ last = Outcome("install", "error", "none", "nokey", 0)
    /\ Session.publicKey = NULL
    /\ ~verifyInstallation(Session)
    /\ inflight = EmptyBag

\* The session timeout, in seconds, the server grants the principal of a
\* user_info payload: that of the user, or for an OAuth api key that of the
\* user who requested it.
PrincipalTimeout(user_info) ==
    IF user_info["UserApiKey"].def
    THEN LET requested == user_info["UserApiKey"].nested[1]
         IN  IF requested["UserCompany"].def
             THEN requested["UserCompany"].session_timeout
             ELSE requested["UserPerson"].session_timeout
    ELSE user_info["UserPerson"].session_timeout

\* C15: the step that takes a session-creation response created at T0 for
\* a principal with a timeout of S seconds sets sessionExpiryTime to
\* T0 + S*1000 and sessionTimeout to S*1000; every timer a step sets that
\* is not a short one has the delay expiry - now - 15000, so that it is due
\* 15000 ms before the expiry, and the step that ends a successful
\* generateSession sets such a timer.
C15_ExpiryArithmetic ==
    [][/\ Left("gs_add") /\ Entered("gs_store") =>
            /\ Session'.sessionExpiryTime = now + PrincipalTimeout(account) * 1000
            /\ Session'.sessionTimeout = PrincipalTimeout(account) * 1000
       /\ \A t \in timers' \ timers :
            ~t.short =>
                /\ t.armedAt = now
                /\ t.delay = Session'.sessionExpiryTime - now - 15000
                /\ FireTime(t) = Session'.sessionExpiryTime - 15000
       /\ (/\ Left("gs_store")
           /\ ~storageRefuses /\ ~envCI /\ keepAlive
           /\ Session.sessionExpiryTime # NULL) =>
            \E t \in timers' : ~t.short /\ t.armedAt = now]_vars
\* A renewal of a session with a timeout of 600 s was delivered at the time
\* its response was created: the timer it set has the delay 585000 ms.
C15_Witness ==
    /\ RenewalSucceeded
    /\ Session.sessionTimeout = 600000
    /\ Session.sessionExpiryTime = now + 600000
    /\ \E t \in timers :
          /\ ~t.short
          /\ t.armedAt = now
          /\ t.delay = 585000

\* The shape of a user object: it has this known field and no other, or no
\* known field at all.
OnlyField(u, f) == u[f].def /\ \A g \in UserFieldSet \ {f} : ~u[g].def
NoField(u) == \A f \in UserFieldSet : ~u[f].def
PlainFields == {"UserCompany", "UserPerson", "UserLight"}

\* What the classification of the user object at hand must give.
ClassifiedAsClaimed ==
    LET p == getUserType(account)
        requested == account["UserApiKey"].nested[1]
        granted == account["UserApiKey"].nested[2]
        o == parseOauthUser(Session, p)
    IN  /\ (\E f \in PlainFields : account[f].def) =>
              /\ p.ok /\ ~p.isOAuth
              /\ p.type \in PlainFields
              /\ account[p.type].def
              /\ p.info = account[p.type]
        /\ \A f \in PlainFields : OnlyField(account, f) => p.type = f
        /\ OnlyField(account, "UserApiKey") =>
              /\ p.ok /\ p.isOAuth /\ p.type = "UserApiKey"
              /\ p.info = account["UserApiKey"]
              /\ o.ok = (~NoField(requested) /\ ~NoField(granted))
              /\ o.ok =>
                    \E f, g \in UserFieldSet :
                        /\ OnlyField(requested, f)
                        /\ OnlyField(granted, g)
                        /\ o.sessionTimeout = requested[f].session_timeout
                        /\ o.S.userInfo["UserApiKey"] =
                              [granted[g] EXCEPT
                                  !.id = IF @ = 0 THEN account["UserApiKey"].id ELSE @]
        /\ NoField(account) => ~p.ok

\* C16: a user object with a Company, Person or Light field classifies as
\* not OAuth with the tag of that field; one with the ApiKey field alone as
\* OAuth, its requested_by_user and granted_by_user are classified in the
\* same way, the session timeout is that of requested_by_user and a
\* granted_by_user without an id gets the id of the api key; one with none
\* of the four fields is refused.  A renewal answered with an OAuth api key
\* sets the session timeout and the granted user accordingly.
C16_Classification ==
    /\ []ClassifiedAsClaimed
    /\ [][OnlyField(account, "UserApiKey") /\ Left("gs_add") /\ Entered("gs_store") =>
             /\ \E f \in UserFieldSet :
                  /\ OnlyField(account["UserApiKey"].nested[1], f)
                  /\ Session'.sessionTimeout =
                        account["UserApiKey"].nested[1][f].session_timeout * 1000
             /\ Session'.userInfo["UserApiKey"].def
             /\ Session'.userInfo["UserApiKey"].id # 0]_vars
\* A renewal was answered with an OAuth api key (id 3) requested by a
\* company and granted by a user without an id: the timeout is the
\* company's and the granted user has the id 3.
C16_Witness ==
    /\ account = U_OAuth
    /\ last.op = "registerSession" /\ last.result = "ok" /\ last.calls = 1
    /\ Session.sessionTimeout = 600000
    /\ Session.userInfo["UserApiKey"] = Info(3, 10)
    /\ Session.userInfo["UserLight"] = Undef

\* A user object that matches none of the four shapes, at the top or in the
\* requested_by_user or granted_by_user of an OAuth api key.
Unsupported(u) ==
    \/ NoField(u)
    \/ /\ OnlyField(u, "UserApiKey")
       /\ \/ NoField(u["UserApiKey"].nested[1])
          \/ NoField(u["UserApiKey"].nested[2])

\* C20: a session-creation response with an unsupported user object makes
\* registerSession reject in the step that takes it, with the Session, the
\* storage and the timers as they were and the marker cleared.
C20_FailFast ==
    [][Left("gs_add") /\ (Unsupported(account) \/ last'.error = "unsupported") =>
          /\ last'.result = "error"
          /\ last'.error = "unsupported" \/ last'.errorCode = INSTALLATION_HAS_SESSION
          /\ Session' = Session
          /\ stored' = stored
          /\ timers' = timers
          /\ fetchingNewSession' = FALSE]_vars
\* registerSession rejected an OAuth api key whose granted_by_user has no
\* known field, on a client that was never given a session.
C20_Witness ==
    /\ OnlyField(account, "UserApiKey")
    /\ ~NoField(account["UserApiKey"].nested[1])
    /\ NoField(account["UserApiKey"].nested[2])
    /\ last = Outcome("registerSession", "error", "none", "unsupported", 1)
    /\ Session = RegisteredSession
    /\ stored = RegisteredSession
    /\ timers = {}
    /\ fetchingNewSession = FALSE

\* The step is the callback of a timer that was due.
CallbackRan == last' = Fired /\ \E t \in timers : FireTime(t) <= now

\* The number of background refreshes in flight in a bag of calls.
RefreshCount(b) ==
    BagCardinality([c \in {x \in BagToSet(b) : x.op = "refresh"} |-> b[c]])

\* C18: keepAlive is looked at when the timer fires: with keepAlive false
\* the callback starts no refresh, sends nothing and sets no timer, also
\* when the timer was set while keepAlive was true.
C18_CheckedAtFire ==
    [][keepAlive = FALSE =>
          /\ RefreshCount(inflight') <= RefreshCount(inflight)
          /\ timers' \subseteq timers
          /\ last' = Fired =>
                /\ CallbackRan
                /\ inflight' = inflight
                /\ Session' = Session
                /\ fetchingNewSession' = fetchingNewSession
                /\ timers' = {}]_vars
\* The timer of a session fired after keepAlive had been switched off: the
\* session is as it was, nothing is in flight and no timer is pending.
C18_Witness ==
    /\ last = Fired
    /\ keepAlive = FALSE
    /\ Session.sessionId # NULL
    /\ Session.sessionExpiryTimeChecker # NULL
    /\ inflight = EmptyBag
    /\ timers = {}

\* C19: with keepAlive on, the callback of a due timer starts one
\* background refresh and does not wait for it, and in the same step sets
\* the timer again with shortTimeout = true; what the refresh comes to is
\* delivered to no caller, and its failure is only logged.
C19_RefreshAndRearm ==
    /\ [][last' = Fired /\ keepAlive =>
             /\ CallbackRan
             /\ RefreshCount(inflight') = RefreshCount(inflight) + 1
             /\ BagCardinality(inflight') = BagCardinality(inflight) + 1
             /\ Cardinality(timers') = 1
             /\ \A t \in timers' :
                   /\ t.short
                   /\ t.armedAt = now
                   /\ t.id = Session'.sessionExpiryTimeChecker]_vars
    /\ [][RefreshCount(inflight') > RefreshCount(inflight) => last' = Fired]_vars
    /\ [](last.op = "refresh" =>
            /\ last.result \in {"ok", "logged"}
            /\ last.error # "none" => last.result = "logged")
\* The refresh a callback started has failed and was logged, and the timer
\* the callback set in the same step is still pending.
C19_Witness ==
    /\ last.op = "refresh"
    /\ last.result = "logged"
    /\ last.error = "network"
    /\ keepAlive
    /\ \E t \in timers : t.short /\ t.armedAt = now

\* C21 (as claimed): when a renewal has succeeded, isOAuthKey tells whether
\* the user object the session was created for classifies as OAuth.
C21_FlagMatches ==
    RenewalDelivered /\ last.result = "ok" =>
        Session.isOAuthKey = getUserType(account).isOAuth

\* C22 (as claimed): every pending timer was set with a delay above zero, so
\* that a callback never sets a timer that is due in the same instant.
C22_PositiveDelay ==
    \A t \in timers : t.delay > 0

\* C23 (as claimed): while keepAlive is on, the expiry of the session is
\* known, the CI marker is not set and no operation is in progress, a
\* renewal timer is pending (the storage taking its writes).
C23_RenewalPending ==
    (/\ keepAlive
     /\ ~envCI
     /\ ~storageRefuses
     /\ Session.sessionExpiryTime # NULL
     /\ inflight = EmptyBag) => timers # {}

====
